---- MODULE Spec2Model ----
(***************************************************************************)
(* A model of the layered configuration store (ceam/config_tree.py) and of *)
(* the event dispatch engine (ceam/framework/event.py).                    *)
(*                                                                         *)
(* Configuration store.  Every ConfigTree / ConfigNode object is named by  *)
(* the path of child names that leads to it from the root tree.  A layer   *)
(* list is a Python list object that several trees may share (a tree       *)
(* autocreated by a read receives its parent's list object, a tree or node *)
(* created by a write receives a copy); the field lref names the object    *)
(* that owns the list an object refers to.  _children is a dict: the field *)
(* kids keeps its keys in insertion order.                                 *)
(*                                                                         *)
(* Event engine.  An emission is a synchronous loop that calls listeners;  *)
(* a listener is foreign code that may return, raise, or call back into    *)
(* the manager, so the emission advances one listener call at a time.      *)
(***************************************************************************)
EXTENDS Integers, Sequences, FiniteSets, TLC

VARIABLES
    objs,         \* configuration objects: path -> ConfigTree / ConfigNode
    ret,          \* the last configuration call and its outcome
    nops,         \* number of state-changing configuration calls made
    given,        \* the layers argument the root tree was constructed with
    event_types,  \* EventManager.__event_types: name -> listeners buckets
    event_keys,   \* keys of __event_types in insertion order
    clock,        \* whether setup() has bound EventManager.clock
    em,           \* the emission in progress (position of _EventChannel.emit)
    calls,        \* listeners invoked by the current / last emission
    eret,         \* the last event-manager call and its outcome
    registered,   \* history: how often register_listener was called per (name, listener)
    named,        \* history: the names handed to get_emitter, register_listener, the injector
    nregs         \* number of register_listener calls made

cvars == <<objs, ret, nops, given>>
evars == <<event_types, event_keys, clock, em, calls, eret, registered, named, nregs>>
vars == <<objs, ret, nops, given, event_types, event_keys, clock, em, calls, eret, registered, named, nregs>>

(***************************************************************************)
(* Bounds                                                                  *)
(***************************************************************************)
MaxOps == 2      \* state-changing configuration calls per behaviour
MaxDepth == 2    \* longest path of a configuration object
MaxRegs == 3     \* register_listener calls per behaviour

(***************************************************************************)
(* Generic helpers                                                         *)
(***************************************************************************)
Range(s) == {s[i] : i \in 1..Len(s)}

IsPrefix(p, q) == Len(p) <= Len(q) /\ SubSeq(q, 1, Len(p)) = p

\* list.remove(x) on a list that contains x: drops the first occurrence
RemoveFirst(s, x) ==
    LET i == CHOOSE k \in 1..Len(s) : s[k] = x /\ \A j \in 1..(k-1) : s[j] # x
    IN  SubSeq(s, 1, i-1) \o SubSeq(s, i+1, Len(s))

(***************************************************************************)
(* Configuration store: values                                             *)
(***************************************************************************)
None == "None"
ChildNames == {"x", "a"}
LayerNames == {"base", "clinical", "override"}
Root == <<>>

\* one slot of ConfigNode._values: absent, or the stored (source, value) pair
Unset == [set |-> FALSE, source |-> None, value |-> 0]
Pair(source, value) == [set |-> TRUE, source |-> source, value |-> value]
NoValues == [l \in LayerNames |-> Unset]

\* values handed to a write: a scalar, or a mapping given as its items in order
Scalar(v) == [kind |-> "scalar", v |-> v, items |-> <<>>]
Dict(items) == [kind |-> "dict", v |-> 0, items |-> items]
Item(k, val) == [k |-> k, val |-> val]

Ok(o) == [o |-> o, err |-> "ok"]
Fail(o, e) == [o |-> o, err |-> e]

\* self._layers of the object at p
Layers(o, p) == o[o[p].lref].layers

HasChild(o, p, name) == name \in Range(o[p].kids)

(***************************************************************************)
(* Constructors                                                            *)
(***************************************************************************)
\* ConfigNode.__init__(layers): the list passed in is always a fresh copy
NodeInit(p, layers) ==
    [kind |-> "Node", frozen |-> FALSE, lref |-> p,
     layers |-> IF layers = <<>> THEN <<"base">> ELSE layers,
     values |-> NoValues, kids |-> <<>>]

\* ConfigTree.__init__(layers=<the list object owned by ref>) without data:
\* an empty list is replaced by a fresh ['base'], any other list object is kept
TreeInit(p, ref, layers) ==
    [kind |-> "Tree", frozen |-> FALSE,
     lref |-> IF layers = <<>> THEN p ELSE ref,
     layers |-> IF layers = <<>> THEN <<"base">> ELSE IF ref = p THEN layers ELSE <<>>,
     values |-> NoValues, kids |-> <<>>]

\* self._children[name] = obj: the old binding and everything below it goes,
\* a key already in the dict keeps its place
Bind(o, p, name, obj) ==
    LET c == Append(p, name)
        keep == {q \in DOMAIN o : ~IsPrefix(c, q)}
        kids == IF HasChild(o, p, name) THEN o[p].kids ELSE Append(o[p].kids, name)
    IN  [q \in keep \cup {c} |->
            IF q = c THEN obj
            ELSE IF q = p THEN [o[p] EXCEPT !.kids = kids]
            ELSE o[q]]

(***************************************************************************)
(* ConfigNode                                                              *)
(***************************************************************************)
\* a scan in declaration order, as the loop would do without reversed()
RECURSIVE ScanForwardFrom(_, _, _)
ScanForwardFrom(values, layers, j) ==
    IF j > Len(layers) THEN [err |-> "KeyError", val |-> Unset]
    ELSE IF values[layers[j]].set THEN [err |-> "ok", val |-> values[layers[j]]]
    ELSE ScanForwardFrom(values, layers, j + 1)
ScanForward(values, layers, i) == ScanForwardFrom(values, layers, 1)

\* the loop `for layer in reversed(self._layers)` from position i downwards
RECURSIVE ScanReversed(_, _, _)
ScanReversed(values, layers, i) ==
    IF i = 0 THEN [err |-> "KeyError", val |-> Unset]
    ELSE IF values[layers[i]].set THEN [err |-> "ok", val |-> values[layers[i]]]
    ELSE ScanReversed(values, layers, i - 1)

\* a lookup that falls back to the scan when the named layer holds nothing
NodeGetValueWithSourceFallback(o, p, layer) ==
    IF layer # None /\ o[p].values[layer].set
    THEN [err |-> "ok", val |-> o[p].values[layer]]
    ELSE ScanReversed(o[p].values, Layers(o, p), Len(Layers(o, p)))

NodeGetValueWithSource(o, p, layer) ==
    IF layer # None
    THEN IF o[p].values[layer].set
         THEN [err |-> "ok", val |-> o[p].values[layer]]
         ELSE [err |-> "KeyError", val |-> Unset]
    ELSE ScanReversed(o[p].values, Layers(o, p), Len(Layers(o, p)))

\* get_value: element [1] of the pair
NodeGetValue(o, p, layer) ==
    LET r == NodeGetValueWithSource(o, p, layer)
    IN  IF r.err = "ok" THEN [err |-> "ok", val |-> r.val.value]
        ELSE [err |-> r.err, val |-> 0]

\* one record of metadata()
Record(layer, pair, default) ==
    [layer |-> layer, value |-> pair.value, source |-> pair.source, default |-> default]

\* a metadata() that flags the first declared layer as the default
RECURSIVE NodeMetadataFrom(_, _, _)
NodeMetadataFirst(o, p) ==
    LET ls == Layers(o, p)
        held == SelectSeq(ls, LAMBDA l : o[p].values[l].set)
    IN  [k \in 1..Len(held) |-> Record(held[k], o[p].values[held[k]], held[k] = ls[1])]

\* metadata(): the loop `for layer in self._layers` from position i on
NodeMetadataFrom(o, p, i) ==
    LET ls == Layers(o, p) IN
    IF i > Len(ls) THEN <<>>
    ELSE IF o[p].values[ls[i]].set
    THEN <<Record(ls[i], o[p].values[ls[i]], ls[i] = ls[Len(ls)])>>
            \o NodeMetadataFrom(o, p, i + 1)
    ELSE NodeMetadataFrom(o, p, i + 1)
NodeMetadata(o, p) == NodeMetadataFrom(o, p, 1)

NodeFreeze(o, p) == [o EXCEPT ![p].frozen = TRUE]

\* a write whose default layer is the first declared one
NodeSetValueFirst(o, p, value, layer, source) ==
    IF o[p].frozen THEN Fail(o, "TypeError")
    ELSE IF layer = None /\ Layers(o, p) = <<>> THEN Fail(o, "IndexError")
    ELSE LET l == IF layer = None THEN Layers(o, p)[1] ELSE layer
         IN  Ok([o EXCEPT ![p].values[l] = Pair(source, value)])

\* a write that stores the value and forgets its source
NodeSetValueNoSource(o, p, value, layer, source) ==
    IF o[p].frozen THEN Fail(o, "TypeError")
    ELSE IF layer = None /\ Layers(o, p) = <<>> THEN Fail(o, "IndexError")
    ELSE LET l == IF layer = None THEN Layers(o, p)[Len(Layers(o, p))] ELSE layer
         IN  Ok([o EXCEPT ![p].values[l] = Pair(None, value)])

NodeSetValue(o, p, value, layer, source) ==
    IF o[p].frozen THEN Fail(o, "TypeError")
    ELSE IF layer = None /\ Layers(o, p) = <<>> THEN Fail(o, "IndexError")
    ELSE LET l == IF layer = None THEN Layers(o, p)[Len(Layers(o, p))] ELSE layer
         IN  Ok([o EXCEPT ![p].values[l] = Pair(source, value)])

NodeResetLayer(o, p, layer) ==
    IF o[p].values[layer].set
    THEN Ok([o EXCEPT ![p].values[layer] = Unset])
    ELSE Fail(o, "KeyError")

\* self._layers.remove(layer), on the list object the object at p refers to
LayersRemove(o, p, layer) ==
    IF layer \in Range(Layers(o, p))
    THEN Ok([o EXCEPT ![o[p].lref].layers = RemoveFirst(Layers(o, p), layer)])
    ELSE Fail(o, "ValueError")

NodeDropLayer(o, p, layer) ==
    LET r == NodeResetLayer(o, p, layer)
    IN  IF r.err # "ok" THEN r ELSE LayersRemove(r.o, p, layer)

(***************************************************************************)
(* ConfigTree                                                              *)
(***************************************************************************)
\* a freeze that marks the tree alone
FreezeShallow(o, p) == [o EXCEPT ![p].frozen = TRUE]

RECURSIVE FreezeKids(_, _, _)
TreeFreeze(o, p) == FreezeKids([o EXCEPT ![p].frozen = TRUE], p, 1)
\* the loop `for child in self._children.values(): child.freeze()` from child i on
FreezeKids(o, p, i) ==
    IF i > Len(o[p].kids) THEN o
    ELSE LET c == Append(p, o[p].kids[i])
         IN  FreezeKids(IF o[c].kind = "Tree" THEN TreeFreeze(o, c) ELSE NodeFreeze(o, c),
                        p, i + 1)

\* a read that creates the missing child without looking at the frozen flag
GetFromLayerUnchecked(o, p, name, layer) ==
    LET c == Append(p, name)
        o1 == IF HasChild(o, p, name) THEN o
              ELSE Bind(o, p, name, TreeInit(c, o[p].lref, Layers(o, p)))
    IN  IF o1[c].kind = "Node"
        THEN LET r == NodeGetValue(o1, c, layer)
             IN  [o |-> o1, err |-> r.err, tree |-> FALSE, val |-> r.val]
        ELSE [o |-> o1, err |-> "ok", tree |-> TRUE, val |-> 0]

\* name in tree
Contains(o, p, name) == name \in Range(o[p].kids)

\* len(tree)
TreeLen(o, p) == Len(o[p].kids)

GetFromLayer(o, p, name, layer) ==
    LET c == Append(p, name) IN
    IF ~HasChild(o, p, name) /\ o[p].frozen
    THEN [o |-> o, err |-> "KeyError", tree |-> FALSE, val |-> 0]
    ELSE LET o1 == IF HasChild(o, p, name) THEN o
                   ELSE Bind(o, p, name, TreeInit(c, o[p].lref, Layers(o, p)))
         IN  IF o1[c].kind = "Node"
             THEN LET r == NodeGetValue(o1, c, layer)
                  IN  [o |-> o1, err |-> r.err, tree |-> FALSE, val |-> r.val]
             ELSE [o |-> o1, err |-> "ok", tree |-> TRUE, val |-> 0]

RECURSIVE SetWithMetadata(_, _, _, _, _, _), ReadDictFrom(_, _, _, _, _, _)
\* a write that binds a new child whatever the name was bound to
SetWithMetadataRebind(o, p, name, value, layer, source) ==
    LET c == Append(p, name) IN
    IF o[p].frozen THEN Fail(o, "TypeError")
    ELSE IF value.kind = "dict"
    THEN ReadDictFrom(Bind(o, p, name, TreeInit(c, c, Layers(o, p))),
                      c, value.items, 1, layer, source)
    ELSE NodeSetValue(Bind(o, p, name, NodeInit(c, Layers(o, p))),
                      c, value.v, layer, source)

SetWithMetadata(o, p, name, value, layer, source) ==
    LET c == Append(p, name) IN
    IF o[p].frozen THEN Fail(o, "TypeError")
    ELSE IF value.kind = "dict"
    THEN LET o1 == IF ~HasChild(o, p, name) \/ o[c].kind # "Tree"
                   THEN Bind(o, p, name, TreeInit(c, c, Layers(o, p)))
                   ELSE o
         IN  ReadDictFrom(o1, c, value.items, 1, layer, source)
    ELSE LET o1 == IF ~HasChild(o, p, name) \/ o[c].kind # "Node"
                   THEN Bind(o, p, name, NodeInit(c, Layers(o, p)))
                   ELSE o
         IN  NodeSetValue(o1, c, value.v, layer, source)

\* the loop of read_dict from item i on; an exception ends it
ReadDictFrom(o, p, items, i, layer, source) ==
    IF i > Len(items) THEN Ok(o)
    ELSE LET r == SetWithMetadata(o, p, items[i].k, items[i].val, layer, source)
         IN  IF r.err # "ok" THEN r
             ELSE ReadDictFrom(r.o, p, items, i + 1, layer, source)

ReadDict(o, p, items, layer, source) == ReadDictFrom(o, p, items, 1, layer, source)

RECURSIVE DropKids(_, _, _, _)
TreeDropLayer(o, p, layer) ==
    LET r == DropKids(o, p, 1, layer)
    IN  IF r.err # "ok" THEN r ELSE LayersRemove(r.o, p, layer)
DropKids(o, p, i, layer) ==
    IF i > Len(o[p].kids) THEN Ok(o)
    ELSE LET c == Append(p, o[p].kids[i])
             r == IF o[c].kind = "Tree" THEN TreeDropLayer(o, c, layer)
                  ELSE NodeDropLayer(o, c, layer)
         IN  IF r.err # "ok" THEN r ELSE DropKids(r.o, p, i + 1, layer)

\* k.split('.') on a key given as its characters: the segments between dots
RECURSIVE SplitFrom(_, _, _)
SplitFrom(key, i, seg) ==
    IF i > Len(key) THEN <<seg>>
    ELSE IF key[i] = "." THEN <<seg>> \o SplitFrom(key, i + 1, <<>>)
    ELSE SplitFrom(key, i + 1, Append(seg, key[i]))
Split(key) == SplitFrom(key, 1, <<>>)

\* a child name as the characters of its string (child names are one character long)
Chars(name) == <<name>>

\* _reset_layer(layer, preserve_keys, prefix) on the tree at p, from child i on
RECURSIVE ResetKids(_, _, _, _, _, _)
ResetKids(o, p, i, layer, preserve, prefix) ==
    IF i > Len(o[p].kids) THEN Ok(o)
    ELSE LET key == o[p].kids[i]
             c == Append(p, key)
             r == IF Append(prefix, Chars(key)) \in preserve THEN Ok(o)
                  ELSE IF o[c].kind = "Tree"
                  THEN ResetKids(o, c, 1, layer, preserve, Append(prefix, Chars(key)))
                  ELSE NodeResetLayer(o, c, layer)
         IN  IF r.err # "ok" THEN r ELSE ResetKids(r.o, p, i + 1, layer, preserve, prefix)

TreeResetLayer(o, p, layer, preserve_keys) ==
    ResetKids(o, p, 1, layer, {Split(preserve_keys[k]) : k \in 1..Len(preserve_keys)}, <<>>)

\* key.partition('.') on a key given as its characters: the part before the
\* first dot and the part after it (empty when there is no dot)
RECURSIVE PartitionFrom(_, _)
PartitionFrom(key, i) ==
    IF i > Len(key) THEN [head |-> key, tail |-> <<>>]
    ELSE IF key[i] = "." THEN [head |-> SubSeq(key, 1, i - 1),
                               tail |-> SubSeq(key, i + 1, Len(key))]
    ELSE PartitionFrom(key, i + 1)
Partition(key) == PartitionFrom(key, 1)

\* the children of the tree at p whose name is the string key
Named(o, p, key) == {n \in Range(o[p].kids) : Chars(n) = key}

\* ConfigTree.metadata(key); key is None when the call passes no key, which is
\* how the tree calls the child found under the whole key; a child Node called
\* with key=tail rejects the keyword
RECURSIVE TreeMetadata(_, _, _)
TreeMetadata(o, p, key) ==
    IF key = None THEN [err |-> "AttributeError", meta |-> <<>>]
    ELSE IF Named(o, p, key) # {}
    THEN LET c == Append(p, CHOOSE n \in Named(o, p, key) : TRUE)
         IN  IF o[c].kind = "Node" THEN [err |-> "ok", meta |-> NodeMetadata(o, c)]
             ELSE TreeMetadata(o, c, None)
    ELSE LET part == Partition(key) IN
         IF Named(o, p, part.head) # {}
         THEN LET c == Append(p, CHOOSE n \in Named(o, p, part.head) : TRUE)
              IN  IF o[c].kind = "Node" THEN [err |-> "TypeError", meta |-> <<>>]
                  ELSE TreeMetadata(o, c, part.tail)
         ELSE [err |-> "KeyError", meta |-> <<>>]

\* ConfigTree.__init__(data, layers)
TreeNew(data, layers) ==
    LET o == [q \in {Root} |-> TreeInit(Root, Root, layers)]
    IN  IF data = <<>> THEN o
        ELSE ReadDict(o, Root, data, Layers(o, Root)[1], "initial data").o


(***************************************************************************)
(* Configuration store: the calls a client makes                           *)
(***************************************************************************)
\* the declared layer sequences a root tree is constructed with (<<>>: none given)
LayerSeqs == {<<>>, <<"base", "clinical">>, <<"override", "base">>}

\* the layer names a client of this tree uses
Universe == Range(given) \cup {"base"}

\* what a client writes: the default layer receives 3 (no source), "base"
\* receives 1 from "defaults", any other layer receives 2 from "cli"
Input(layer) ==
    IF layer = None THEN [layer |-> None, value |-> 3, source |-> None]
    ELSE IF layer = "base" THEN [layer |-> layer, value |-> 1, source |-> "defaults"]
    ELSE [layer |-> layer, value |-> 2, source |-> "cli"]

\* the mappings handed to the constructor and to read_dict, as items in order
DictX(v) == <<Item("x", Scalar(v))>>
DictAX(v) == <<Item("a", Dict(DictX(v))), Item("x", Scalar(v))>>
Mappings(v) == {<<>>, DictAX(v)}
ReadMappings(v) == {DictX(v), DictAX(v)}

\* the values handed to a name-based write
Values(v) == {Scalar(v), Dict(<<>>), Dict(DictX(v))}

LayerArgs == {None} \cup Universe

\* the preserve_keys lists handed to reset_layer, each key as its characters
PreserveLists == {<<>>, << <<"a", ".", "x">> >>}

\* the keys handed to tree.metadata, each as its characters
MetaKeys == {<<"x">>, <<"a">>, <<"a", ".", "x">>, <<"x", ".", "x">>, <<"a", ".", "a">>}

\* number of levels a written value adds below the tree it is written to
RECURSIVE ValueDepth(_), ItemsDepth(_, _)
ValueDepth(value) ==
    IF value.kind = "scalar" THEN 1 ELSE 1 + ItemsDepth(value.items, 1)
ItemsDepth(items, i) ==
    IF i > Len(items) THEN 0
    ELSE LET d == ValueDepth(items[i].val)
             e == ItemsDepth(items, i + 1)
         IN  IF d > e THEN d ELSE e

Trees == {p \in DOMAIN objs : objs[p].kind = "Tree"}
Nodes == {p \in DOMAIN objs : objs[p].kind = "Node"}

NoRet ==
    [op |-> "new", path |-> Root, name |-> None, layer |-> None, err |-> "ok",
     pair |-> Unset, val |-> 0, tree |-> FALSE, flag |-> FALSE, meta |-> <<>>,
     changed |-> TRUE]

\* One call of the client: it leaves the store as o and is recorded as r.
\* A behaviour makes at most MaxOps calls that change the store.  A call that
\* leaves the store as it was (a read, a rejected call) is the last call of its
\* behaviour: the calls that could follow it start from the same store, so they
\* are the calls already taken from the state before it.
Live == ret.changed

Call(o, r) ==
    /\ o # objs => nops < MaxOps
    /\ objs' = o
    /\ nops' = IF o = objs THEN nops ELSE nops + 1
    /\ ret' = [r EXCEPT !.changed = (o # objs)]
    /\ UNCHANGED given
    /\ UNCHANGED evars

ConfigInit ==
    /\ given \in LayerSeqs
    /\ \E data \in Mappings(1) : objs = TreeNew(data, given)
    /\ ret = NoRet
    /\ nops = 0

\* tree.<name>, which is tree.get_from_layer(name)
GetAttr(p, name) ==
    LET r == GetFromLayer(objs, p, name, None) IN
    /\ Len(p) < MaxDepth
    /\ Call(r.o, [NoRet EXCEPT !.op = "getattr", !.path = p, !.name = name,
                            !.err = r.err, !.val = r.val, !.tree = r.tree])

\* name in tree
ContainsCall(p, name) ==
    Call(objs, [NoRet EXCEPT !.op = "contains", !.path = p, !.name = name,
                             !.flag = Contains(objs, p, name)])

\* len(tree)
LenCall(p) ==
    Call(objs, [NoRet EXCEPT !.op = "len", !.path = p, !.val = TreeLen(objs, p)])

\* tree.<name> = value
SetAttr(p, name, value) ==
    LET r == SetWithMetadata(objs, p, name, value, None, None) IN
    /\ Len(p) + ValueDepth(value) <= MaxDepth
    /\ Call(r.o, [NoRet EXCEPT !.op = "setattr", !.path = p, !.name = name, !.err = r.err])

\* tree.set_with_metadata(name, value, layer, source)
SetWithMetadataCall(p, name, value, layer, source) ==
    LET r == SetWithMetadata(objs, p, name, value, layer, source) IN
    /\ Len(p) + ValueDepth(value) <= MaxDepth
    /\ Call(r.o, [NoRet EXCEPT !.op = "set_with_metadata", !.path = p, !.name = name,
                            !.layer = layer, !.err = r.err])

\* tree.read_dict(mapping, layer, source)
ReadDictCall(p, items, layer, source) ==
    LET r == ReadDict(objs, p, items, layer, source) IN
    /\ Len(p) + ItemsDepth(items, 1) <= MaxDepth
    /\ Call(r.o, [NoRet EXCEPT !.op = "read_dict", !.path = p, !.layer = layer,
                            !.err = r.err, !.val = Len(items)])

\* tree.freeze()
FreezeCall(p) ==
    LET o == TreeFreeze(objs, p) IN
    /\ Call(o, [NoRet EXCEPT !.op = "freeze", !.path = p])

\* tree.drop_layer(layer)
DropLayerCall(p, layer) ==
    LET r == TreeDropLayer(objs, p, layer) IN
    /\ Call(r.o, [NoRet EXCEPT !.op = "drop_layer", !.path = p, !.layer = layer, !.err = r.err])

\* tree.reset_layer(layer, preserve_keys)
ResetLayerCall(p, layer, preserve_keys) ==
    LET r == TreeResetLayer(objs, p, layer, preserve_keys) IN
    /\ Call(r.o, [NoRet EXCEPT !.op = "reset_layer", !.path = p, !.layer = layer,
                            !.err = r.err, !.val = Len(preserve_keys)])

\* node.get_value_with_source(layer)
NodeGetValueWithSourceCall(p, layer) ==
    LET r == NodeGetValueWithSource(objs, p, layer) IN
    /\ Call(objs, [NoRet EXCEPT !.op = "node.get_value_with_source", !.path = p,
                            !.layer = layer, !.err = r.err, !.pair = r.val])

\* node.get_value(layer)
NodeGetValueCall(p, layer) ==
    LET r == NodeGetValue(objs, p, layer) IN
    /\ Call(objs, [NoRet EXCEPT !.op = "node.get_value", !.path = p,
                            !.layer = layer, !.err = r.err, !.val = r.val])

\* node.metadata()
NodeMetadataCall(p) ==
    Call(objs, [NoRet EXCEPT !.op = "node.metadata", !.path = p,
                             !.meta = NodeMetadata(objs, p)])

\* tree.metadata(key)
TreeMetadataCall(p, key) ==
    LET r == TreeMetadata(objs, p, key) IN
    Call(objs, [NoRet EXCEPT !.op = "metadata", !.path = p, !.err = r.err,
                             !.meta = r.meta])

\* node.set_value(value, layer, source)
NodeSetValueCall(p, value, layer, source) ==
    LET r == NodeSetValue(objs, p, value, layer, source) IN
    /\ Call(r.o, [NoRet EXCEPT !.op = "node.set_value", !.path = p, !.layer = layer,
                            !.err = r.err])

\* node.drop_layer(layer)
NodeDropLayerCall(p, layer) ==
    LET r == NodeDropLayer(objs, p, layer) IN
    /\ Call(r.o, [NoRet EXCEPT !.op = "node.drop_layer", !.path = p, !.layer = layer,
                            !.err = r.err])

\* node.reset_layer(layer)
NodeResetLayerCall(p, layer) ==
    LET r == NodeResetLayer(objs, p, layer) IN
    /\ Call(r.o, [NoRet EXCEPT !.op = "node.reset_layer", !.path = p, !.layer = layer,
                            !.err = r.err])

ConfigNext ==
    \/ Live /\ \E p \in Trees, name \in ChildNames : GetAttr(p, name)
    \/ Live /\ \E p \in Trees, name \in ChildNames : ContainsCall(p, name)
    \/ Live /\ \E p \in Trees : LenCall(p)
    \/ Live /\ \E p \in Trees, name \in ChildNames, value \in Values(Input(None).value) :
            SetAttr(p, name, value)
    \/ Live /\ \E p \in Trees, name \in ChildNames, layer \in Universe :
            SetWithMetadataCall(p, name, Scalar(Input(layer).value), layer, Input(layer).source)
    \/ Live /\ \E p \in Trees, layer \in Universe :
            \E items \in ReadMappings(Input(layer).value) :
                ReadDictCall(p, items, layer, Input(layer).source)
    \/ Live /\ \E p \in Trees : FreezeCall(p)
    \/ Live /\ \E p \in Trees, layer \in Universe : DropLayerCall(p, layer)
    \/ Live /\ \E p \in Trees, layer \in Universe, keys \in PreserveLists :
            ResetLayerCall(p, layer, keys)
    \/ Live /\ \E p \in Nodes, layer \in LayerArgs : NodeGetValueWithSourceCall(p, layer)
    \/ Live /\ \E p \in Nodes, layer \in Universe : NodeGetValueCall(p, layer)
    \/ Live /\ \E p \in Nodes : NodeMetadataCall(p)
    \/ Live /\ \E p \in Trees, key \in MetaKeys : TreeMetadataCall(p, key)
    \/ Live /\ \E p \in Nodes, layer \in LayerArgs :
            NodeSetValueCall(p, Input(layer).value, layer, Input(layer).source)
    \/ Live /\ \E p \in Nodes, layer \in Universe : NodeDropLayerCall(p, layer)
    \/ Live /\ \E p \in Nodes, layer \in Universe : NodeResetLayerCall(p, layer)

(***************************************************************************)
(* Event engine                                                            *)
(***************************************************************************)
NumBuckets == 10

EventNames == {"time_step", "other"}
\* the priorities a client registers with
Priorities == {1, 2}

\* a listener is a callable: its identity, and its __name__ as code points
L1 == [id |-> 1, name |-> <<122, 122, 122>>]   \* "zzz"
L2 == [id |-> 2, name |-> <<97, 97, 97>>]      \* "aaa"
L3 == [id |-> 3, name |-> <<97, 97, 97>>]      \* another callable named "aaa"
Listeners == {L1, L2, L3}

\* str < str in Python: by code point, a proper prefix first
RECURSIVE LexLessFrom(_, _, _)
LexLessFrom(a, b, i) ==
    IF i > Len(a) THEN i <= Len(b)
    ELSE IF i > Len(b) THEN FALSE
    ELSE IF a[i] # b[i] THEN a[i] < b[i]
    ELSE LexLessFrom(a, b, i + 1)
LexLess(a, b) == LexLessFrom(a, b, 1)

\* sorted(bucket, key=lambda x: x.__name__): a stable sort, equal names keep
\* the order they have in the bucket
RECURSIVE InsertByName(_, _)
InsertByName(sorted, l) ==
    IF sorted = <<>> THEN <<l>>
    ELSE IF LexLess(l.name, Head(sorted).name) THEN <<l>> \o sorted
    ELSE <<Head(sorted)>> \o InsertByName(Tail(sorted), l)
RECURSIVE SortedFrom(_, _, _)
SortedFrom(bucket, i, acc) ==
    IF i > Len(bucket) THEN acc
    ELSE SortedFrom(bucket, i + 1, InsertByName(acc, bucket[i]))
SortedByName(bucket) == SortedFrom(bucket, 1, <<>>)

\* _EventChannel.__init__: [[] for i in range(10)]
NewChannel == [b \in 0..(NumBuckets - 1) |-> <<>>]

\* self.__event_types[name] on the defaultdict: a missing name gets a new channel
Touch(types, name) ==
    IF name \in DOMAIN types THEN types
    ELSE [n \in DOMAIN types \cup {name} |-> IF n = name THEN NewChannel ELSE types[n]]
\* a key list that misses the channels created on access
TouchKeysDrop(types, keys, name) == keys

TouchKeys(types, keys, name) ==
    IF name \in DOMAIN types THEN keys ELSE Append(keys, name)

\* a registration that skips a listener the bucket already holds
RegisterListenerDedup(types, name, listener, priority) ==
    LET t == Touch(types, name)
    IN  IF listener \in Range(t[name][priority]) THEN t
        ELSE [t EXCEPT ![name][priority] = Append(@, listener)]

\* register_listener(name, listener, priority)
RegisterListener(types, name, listener, priority) ==
    LET t == Touch(types, name)
    IN  [t EXCEPT ![name][priority] = Append(@, listener)]

\* list_events()
ListEvents == event_keys

\* A callable with its declarations: the listener it is, the (event, priority)
\* pairs listens_for attached to it and the event names emits attached to it.
Callable(l, marks, emitted) == [l |-> l, marks |-> marks, emits |-> emitted]
Mark(event, priority) == [event |-> event, priority |-> priority]

\* listens_for.finder(f): one list of event names per priority, 0 to 9
ListensForFinder(f) ==
    [b \in 0..(NumBuckets - 1) |->
        LET at == SelectSeq(f.marks, LAMBDA m : m.priority = b)
        IN  [k \in 1..Len(at) |-> at[k].event]]

\* emits.finder(f): the event names of the emitters declared on f
EmitsFinder(f) == f.emits

\* a comprehension that forgets the index of enumerate and uses the default
\* priority of register_listener
RECURSIVE FoundFrom(_, _)
FoundDefault(f) ==
    [k \in 1..Len(f.marks) |-> [event |-> f.marks[k].event, l |-> f.l, priority |-> 5]]

\* [(v, f, i) for i, priority in enumerate(listens_for.finder(f)) for v in priority]
FoundFrom(f, b) ==
    IF b >= NumBuckets THEN <<>>
    ELSE LET names == ListensForFinder(f)[b]
         IN  [k \in 1..Len(names) |-> [event |-> names[k], l |-> f.l, priority |-> b]]
                \o FoundFrom(f, b + 1)
Found(f) == FoundFrom(f, 0)

\* the listeners of a component: those of the component itself, then those of
\* getattr(component, att) for att in sorted(dir(component))
RECURSIVE AttrListeners(_, _), AttrEmitters(_, _)
AttrListeners(attrs, i) ==
    IF i > Len(attrs) THEN <<>> ELSE Found(attrs[i].f) \o AttrListeners(attrs, i + 1)
ComponentListeners(comp) == Found(comp.self) \o AttrListeners(SortedByName(comp.attrs), 1)

\* the emitters of a component, in the same order
AttrEmitters(attrs, i) ==
    IF i > Len(attrs) THEN <<>>
    ELSE EmitsFinder(attrs[i].f) \o AttrEmitters(attrs, i + 1)
ComponentEmitters(comp) == EmitsFinder(comp.self) \o AttrEmitters(SortedByName(comp.attrs), 1)

\* the channel map and its keys after the loop over listeners, from listener i on
RECURSIVE RegisterAll(_, _, _)
RegisterAll(st, found, i) ==
    IF i > Len(found) THEN st
    ELSE RegisterAll([types |-> RegisterListener(st.types, found[i].event, found[i].l,
                                                 found[i].priority),
                      keys |-> TouchKeys(st.types, st.keys, found[i].event)],
                     found, i + 1)

\* the loop that calls get_emitter for every emitter found, from emitter i on
RECURSIVE CreateAll(_, _, _)
CreateAll(st, emitted, i) ==
    IF i > Len(emitted) THEN st
    ELSE CreateAll([types |-> Touch(st.types, emitted[i]),
                    keys |-> TouchKeys(st.types, st.keys, emitted[i])],
                   emitted, i + 1)

\* setup_components(components): the loop over components from component i on
RECURSIVE SetupComponentsFrom(_, _, _)
SetupComponentsFrom(st, components, i) ==
    IF i > Len(components) THEN st
    ELSE SetupComponentsFrom(
            CreateAll(RegisterAll(st, ComponentListeners(components[i]), 1),
                      ComponentEmitters(components[i]), 1),
            components, i + 1)

\* the components handed to setup_components: their attributes are given in
\* no particular order, each with its name as code points
CompA ==
    [self |-> Callable(L1, <<Mark("time_step", 2)>>, <<>>),
     attrs |-> << [name |-> <<111, 110, 95, 98>>,               \* "on_b"
                   f |-> Callable(L3, <<Mark("time_step", 2)>>, <<>>)],
                  [name |-> <<111, 110, 95, 97>>,               \* "on_a"
                   f |-> Callable(L2, <<Mark("time_step", 2)>>, <<"other">>)] >>]
CompB ==
    [self |-> Callable(L1, <<>>, <<>>),
     attrs |-> << [name |-> <<103, 111>>,                       \* "go"
                   f |-> Callable(L2, <<Mark("other", 1)>>, <<"time_step">>)] >>]
CompC ==
    [self |-> Callable(L3, <<Mark("other", 1)>>, <<>>),
     attrs |-> <<>>]
ComponentLists == {<<CompA>>, <<CompB>>, <<CompB, CompC>>}

\* all listeners the components declare, in the order they are registered
RECURSIVE AllListeners(_, _), AllEmitters(_, _)
AllListeners(components, i) ==
    IF i > Len(components) THEN <<>>
    ELSE ComponentListeners(components[i]) \o AllListeners(components, i + 1)
AllEmitters(components, i) ==
    IF i > Len(components) THEN <<>>
    ELSE ComponentEmitters(components[i]) \o AllEmitters(components, i + 1)

\* the listeners and the emitters each list of components declares
Wired ==
    [c \in ComponentLists |->
        [listeners |-> AllListeners(c, 1), emitters |-> AllEmitters(c, 1)]]

\* the loops of emit on a channel nobody changes meanwhile: the whole call order
RECURSIVE EmissionOrderFrom(_, _)
EmissionOrderFrom(buckets, b) ==
    IF b >= NumBuckets THEN <<>>
    ELSE SortedByName(buckets[b]) \o EmissionOrderFrom(buckets, b + 1)
EmissionOrder(buckets) == EmissionOrderFrom(buckets, 0)

Idle == [active |-> FALSE, name |-> None, bucket |-> 0, snap |-> <<>>, i |-> 0,
         dirty |-> FALSE]

\* the outer loop of emit reaches bucket b: the first bucket from b on that holds
\* a listener is sorted and its first listener is the next one called
RECURSIVE EnterBucket(_, _, _, _)
EnterBucket(types, name, b, dirty) ==
    IF b >= NumBuckets THEN [Idle EXCEPT !.name = name, !.dirty = dirty]
    ELSE IF types[name][b] = <<>> THEN EnterBucket(types, name, b + 1, dirty)
    ELSE [active |-> TRUE, name |-> name, bucket |-> b,
          snap |-> SortedByName(types[name][b]), i |-> 1, dirty |-> dirty]

\* an emit that walks the bucket itself instead of the sorted copy
AfterListenerLive(types, e, outcome) ==
    LET live == SortedByName(types[e.name][e.bucket]) IN
    IF outcome = "raise" THEN [Idle EXCEPT !.name = e.name, !.dirty = e.dirty]
    ELSE IF e.i < Len(live) THEN [e EXCEPT !.i = e.i + 1, !.snap = live]
    ELSE EnterBucket(types, e.name, e.bucket + 1, e.dirty)

\* an emit that catches what a listener raises and goes on
AfterListenerSwallow(types, e, outcome) ==
    IF e.i < Len(e.snap) THEN [e EXCEPT !.i = e.i + 1]
    ELSE EnterBucket(types, e.name, e.bucket + 1, e.dirty)

\* the listener called at position e has ended with outcome: an exception leaves
\* emit, a return moves on to the next listener of the sorted bucket or to the
\* next bucket
AfterListener(types, e, outcome) ==
    IF outcome = "raise" THEN [Idle EXCEPT !.name = e.name, !.dirty = e.dirty]
    ELSE IF e.i < Len(e.snap) THEN [e EXCEPT !.i = e.i + 1]
    ELSE EnterBucket(types, e.name, e.bucket + 1, e.dirty)

NoERet == [op |-> "new", name |-> None, err |-> "ok", events |-> <<>>]

EmitResult(e, outcome) ==
    IF outcome = "raise" THEN "raised" ELSE IF e.active THEN "running" ELSE "ok"

EventInit ==
    /\ event_types = <<>>
    /\ event_keys = <<>>
    /\ clock = FALSE
    /\ em = Idle
    /\ calls = <<>>
    /\ eret = NoERet
    /\ registered = [k \in EventNames \X {l.id : l \in Listeners} |-> 0]
    /\ named = {}
    /\ nregs = 0

\* manager.setup(builder)
Setup ==
    /\ ~em.active
    /\ clock' = TRUE
    /\ eret' = [NoERet EXCEPT !.op = "setup"]
    /\ calls' = <<>>
    /\ UNCHANGED <<event_types, event_keys, em, registered, named, nregs>>
    /\ UNCHANGED cvars

\* manager.get_emitter(name)
GetEmitter(name) ==
    /\ ~em.active
    /\ event_types' = Touch(event_types, name)
    /\ event_keys' = TouchKeys(event_types, event_keys, name)
    /\ named' = named \cup {name}
    /\ eret' = [NoERet EXCEPT !.op = "get_emitter"]
    /\ calls' = <<>>
    /\ UNCHANGED <<clock, em, registered, nregs>>
    /\ UNCHANGED cvars

\* manager._emitter_injector(func, args, kwargs, label)
InjectEmitter(label) ==
    /\ ~em.active
    /\ event_types' = Touch(event_types, label)
    /\ event_keys' = TouchKeys(event_types, event_keys, label)
    /\ named' = named \cup {label}
    /\ eret' = [NoERet EXCEPT !.op = "inject"]
    /\ calls' = <<>>
    /\ UNCHANGED <<clock, em, registered, nregs>>
    /\ UNCHANGED cvars

\* manager.register_listener(name, listener, priority), called by the client
Register(name, listener, priority) ==
    /\ ~em.active
    /\ nregs < MaxRegs
    /\ event_types' = RegisterListener(event_types, name, listener, priority)
    /\ event_keys' = TouchKeys(event_types, event_keys, name)
    /\ named' = named \cup {name}
    /\ registered' = [registered EXCEPT ![<<name, listener.id>>] = @ + 1]
    /\ nregs' = nregs + 1
    /\ eret' = [NoERet EXCEPT !.op = "register_listener"]
    /\ calls' = <<>>
    /\ UNCHANGED <<clock, em>>
    /\ UNCHANGED cvars

\* manager.setup_components(components)
SetupComponents(components) ==
    /\ ~em.active
    /\ nregs + Len(Wired[components].listeners) <= MaxRegs
    /\ LET st == SetupComponentsFrom([types |-> event_types, keys |-> event_keys],
                                     components, 1)
           found == Wired[components].listeners
           emitted == Wired[components].emitters
       IN  /\ event_types' = st.types
           /\ event_keys' = st.keys
           /\ named' = named \cup {found[k].event : k \in 1..Len(found)}
                              \cup Range(emitted)
           /\ registered' =
                [key \in DOMAIN registered |->
                    registered[key]
                        + Cardinality({k \in 1..Len(found) :
                                        <<found[k].event, found[k].l.id>> = key})]
           /\ nregs' = nregs + Len(found)
    /\ eret' = [NoERet EXCEPT !.op = "setup_components"]
    /\ calls' = <<>>
    /\ UNCHANGED <<clock, em>>
    /\ UNCHANGED cvars

\* manager.list_events()
ListEventsCall ==
    /\ ~em.active
    /\ eret' = [NoERet EXCEPT !.op = "list_events", !.events = ListEvents]
    /\ calls' = <<>>
    /\ UNCHANGED <<event_types, event_keys, clock, em, registered, named, nregs>>
    /\ UNCHANGED cvars

\* emit(event) on the channel of name, up to its first listener call; hasTime
\* says whether the event has a time attribute, which is stamped from the clock
Emit(name, hasTime) ==
    /\ ~em.active
    /\ name \in DOMAIN event_types
    /\ calls' = <<>>
    /\ IF hasTime /\ ~clock
       THEN /\ em' = [Idle EXCEPT !.name = name]
            /\ eret' = [NoERet EXCEPT !.op = "emit", !.name = name, !.err = "AttributeError"]
       ELSE /\ em' = EnterBucket(event_types, name, 0, FALSE)
            /\ eret' = [NoERet EXCEPT !.op = "emit", !.name = name,
                                      !.err = EmitResult(em', "return")]
    /\ UNCHANGED <<event_types, event_keys, clock, registered, named, nregs>>
    /\ UNCHANGED cvars

\* the listener emit calls next returns or raises
Invoke(outcome) ==
    /\ em.active
    /\ calls' = Append(calls, em.snap[em.i])
    /\ em' = AfterListener(event_types, em, outcome)
    /\ eret' = [eret EXCEPT !.err = EmitResult(em', outcome)]
    /\ UNCHANGED <<event_types, event_keys, clock, registered, named, nregs>>
    /\ UNCHANGED cvars

\* the listener emit calls next registers a listener and returns
InvokeRegister(name, listener, priority) ==
    /\ em.active
    /\ nregs < MaxRegs
    /\ calls' = Append(calls, em.snap[em.i])
    /\ event_types' = RegisterListener(event_types, name, listener, priority)
    /\ event_keys' = TouchKeys(event_types, event_keys, name)
    /\ named' = named \cup {name}
    /\ registered' = [registered EXCEPT ![<<name, listener.id>>] = @ + 1]
    /\ nregs' = nregs + 1
    /\ em' = AfterListener(event_types', [em EXCEPT !.dirty = TRUE], "return")
    /\ eret' = [eret EXCEPT !.err = EmitResult(em', "return")]
    /\ UNCHANGED clock
    /\ UNCHANGED cvars

EventNext ==
    \/ Setup
    \/ \E name \in EventNames : GetEmitter(name)
    \/ \E name \in EventNames : InjectEmitter(name)
    \/ \E name \in EventNames, l \in Listeners, p \in Priorities : Register(name, l, p)
    \/ \E components \in ComponentLists : SetupComponents(components)
    \/ ListEventsCall
    \/ \E name \in EventNames, hasTime \in BOOLEAN : Emit(name, hasTime)
    \/ \E outcome \in {"return", "raise"} : Invoke(outcome)
    \/ \E name \in EventNames, l \in Listeners, p \in Priorities : InvokeRegister(name, l, p)

ConfigIdle ==
    /\ given = <<>>
    /\ objs = TreeNew(<<>>, <<>>)
    /\ ret = NoRet
    /\ nops = 0

(***************************************************************************)
(* Specifications                                                          *)
(***************************************************************************)
InitConfig == ConfigInit /\ EventInit

SpecConfig == InitConfig /\ [][ConfigNext]_vars

InitEvent == ConfigIdle /\ EventInit

SpecEvent == InitEvent /\ [][EventNext]_vars


(***************************************************************************)
(* Claims: configuration store                                             *)
(***************************************************************************)
\* the node a read of ret resolved, and the layer it was asked for
IsNodeRead ==
    \/ ret.op \in {"node.get_value_with_source", "node.get_value"}
    \/ ret.op = "getattr" /\ Append(ret.path, ret.name) \in Nodes
ReadNode == IF ret.op = "getattr" THEN Append(ret.path, ret.name) ELSE ret.path

\* the declared positions of node p that hold a value
Held(p) == {i \in 1..Len(Layers(objs, p)) : objs[p].values[Layers(objs, p)[i]].set}

\* C1: a read of a node without a layer returns the pair of the held layer
\* declared last (the first one met scanning in reverse), or fails with KeyError
\* when no declared layer holds a value; a read with a layer returns that
\* layer's pair or fails with KeyError; get_value returns the value half.
C1_Resolution ==
    IsNodeRead =>
        LET p == ReadNode
            ls == Layers(objs, p)
            top == CHOOSE i \in Held(p) : \A j \in Held(p) : j <= i
            expected == IF ret.layer # None THEN objs[p].values[ret.layer]
                        ELSE IF Held(p) = {} THEN Unset
                        ELSE objs[p].values[ls[top]]
        IN  IF expected.set
            THEN /\ ret.err = "ok"
                 /\ ret.op = "node.get_value_with_source" => ret.pair = expected
                 /\ ret.op # "node.get_value_with_source" => ret.val = expected.value
            ELSE ret.err = "KeyError"

C1_Witness ==
    /\ ret.op = "node.get_value_with_source"
    /\ ret.layer = None
    /\ ret.err = "ok"
    /\ Cardinality(Held(ret.path)) >= 2

\* the scenario of C2: layers ["override", "base"], x = 1 at "base" from
\* "defaults", x = 2 at "override" from "cli", and a read of x
C2_Scenario ==
    /\ ret.op = "node.get_value_with_source"
    /\ ret.path = <<"x">>
    /\ Layers(objs, ret.path) = <<"override", "base">>
    /\ objs[ret.path].values["base"] = Pair("defaults", 1)
    /\ objs[ret.path].values["override"] = Pair("cli", 2)

\* C2 as stated: the last declared layer is the weakest; in the scenario the
\* read without a layer returns ("cli", 2) and the read of "base" returns
\* ("defaults", 1); the value of the last declared layer is returned by a read
\* without a layer only when no layer declared before it holds a value.
C2_LastLayerWeakest ==
    /\ C2_Scenario /\ ret.layer = None => ret.pair = Pair("cli", 2)
    /\ C2_Scenario /\ ret.layer = "base" => ret.pair = Pair("defaults", 1)
    /\ ret.op = "node.get_value_with_source" /\ ret.layer = None /\ ret.err = "ok" =>
        LET p == ret.path
            n == Len(Layers(objs, p))
        IN  n \in Held(p) /\ ret.pair = objs[p].values[Layers(objs, p)[n]]
                => Held(p) = {n}

\* C2 as amended: the last declared layer is the strongest; in the scenario
\* both reads return ("defaults", 1); a value held by the last declared layer
\* is what a read without a layer returns, whatever the other layers hold.
C2_LastLayerStrongest ==
    /\ C2_Scenario /\ ret.layer = None => ret.pair = Pair("defaults", 1)
    /\ C2_Scenario /\ ret.layer = "base" => ret.pair = Pair("defaults", 1)
    /\ ret.op = "node.get_value_with_source" /\ ret.layer = None =>
        LET p == ret.path
            n == Len(Layers(objs, p))
        IN  n \in Held(p) =>
                ret.err = "ok" /\ ret.pair = objs[p].values[Layers(objs, p)[n]]

C2_Witness == C2_Scenario /\ ret.layer = None /\ ret.err = "ok"

WriteOps == {"setattr", "set_with_metadata", "read_dict", "node.set_value"}
LayerOps == {"drop_layer", "reset_layer", "node.drop_layer", "node.reset_layer"}

Below(o, p) == {q \in DOMAIN o : IsPrefix(p, q)}

\* every object below a frozen tree is frozen
C3_FrozenDeep ==
    \A p \in Trees : objs[p].frozen => \A q \in Below(objs, p) : objs[q].frozen

\* one call later a frozen object is still frozen, nothing was created below a
\* frozen tree, and a write to a frozen object failed with TypeError and left
\* the store as it was
C3_FrozenStep ==
    \A p \in DOMAIN objs :
        objs[p].frozen =>
            /\ p \in DOMAIN objs' /\ objs'[p].kind = objs[p].kind =>
                    /\ objs'[p].frozen
                    /\ Below(objs', p) \subseteq Below(objs, p)
                    /\ objs'[p].kids = objs[p].kids
            /\ ret'.op \in WriteOps /\ ret'.path = p =>
                    ret'.err = "TypeError" /\ objs' = objs

\* C3: after freeze() the tree and all its descendants stay frozen, every write
\* attempted on any of them fails with TypeError and changes nothing, and no
\* descendant is created under the frozen tree by a read or a write.
C3_FrozenForever == []C3_FrozenDeep /\ [][C3_FrozenStep]_vars

C3_Witness ==
    /\ ret.op \in WriteOps
    /\ ret.err = "TypeError"
    /\ ret.path # Root
    /\ objs[Root].frozen
    /\ objs[ret.path].kind = "Tree"
    /\ objs[ret.path].kids # <<>>

\* C4 as stated: drop_layer and reset_layer called on a frozen node or a frozen
\* tree fail with TypeError (and so leave layers and values unchanged).
C4_LayerOpsRejected ==
    ret.op \in LayerOps /\ objs[ret.path].frozen => ret.err = "TypeError"

NodesBelow(o, p) == {q \in Below(o, p) : o[q].kind = "Node"}

\* C9 as stated: on a tree whose nodes hold values in "clinical" and "base",
\* drop_layer("clinical") removes every "clinical" entry and every read without
\* a layer then resolves to the "base" value; drop_layer("clinical") on a tree
\* whose sequence has lost "clinical" fails with ValueError (layer not declared).
C9_DropClinicalStep ==
    ret'.op = "drop_layer" /\ ret'.layer = "clinical" =>
        LET p == ret'.path IN
        /\ ( /\ "clinical" \in Range(Layers(objs, p))
             /\ NodesBelow(objs, p) # {}
             /\ \A q \in NodesBelow(objs, p) :
                    objs[q].values["clinical"].set /\ objs[q].values["base"].set )
           => /\ ret'.err = "ok"
              /\ \A q \in NodesBelow(objs', p) :
                    /\ ~objs'[q].values["clinical"].set
                    /\ NodeGetValueWithSource(objs', q, None)
                         = [err |-> "ok", val |-> objs[q].values["base"]]
        /\ ( /\ "clinical" \notin Range(Layers(objs, p))
             /\ "clinical" \in Range(given) )
           => ret'.err = "ValueError"
C9_DropClinical == [][C9_DropClinicalStep]_vars

\* C10 as stated: drop_layer(L) on a tree whose declared sequence contains L
\* completes without error; afterwards L is absent from the declared sequence
\* and from the stored values of the tree and of every descendant, and the
\* values stored at other layers are unchanged.
C10_DropCompletesStep ==
    ret'.op = "drop_layer" /\ ret'.layer \in Range(Layers(objs, ret'.path)) =>
        /\ ret'.err = "ok"
        /\ DOMAIN objs' = DOMAIN objs
        /\ \A q \in Below(objs', ret'.path) :
            /\ ret'.layer \notin Range(Layers(objs', q))
            /\ ~objs'[q].values[ret'.layer].set
            /\ \A l \in LayerNames \ {ret'.layer} : objs'[q].values[l] = objs[q].values[l]
C10_DropCompletes == [][C10_DropCompletesStep]_vars

(***************************************************************************)
(* Claims: event engine                                                    *)
(***************************************************************************)
\* an emission that ran to its end while nobody registered a listener
CleanDone == eret.op = "emit" /\ eret.err = "ok" /\ ~em.dirty

\* the registrations a channel holds, bucket by bucket
RECURSIVE RegistrationsFrom(_, _)
RegistrationsFrom(buckets, b) ==
    IF b >= NumBuckets THEN <<>>
    ELSE [k \in 1..Len(buckets[b]) |-> [l |-> buckets[b][k], p |-> b]]
            \o RegistrationsFrom(buckets, b + 1)
Registrations(buckets) == RegistrationsFrom(buckets, 0)

\* the channel after the registrations regs made in the order f
RECURSIVE ReplayFrom(_, _, _, _)
ReplayFrom(types, regs, f, k) ==
    IF k > Len(regs) THEN types
    ELSE ReplayFrom(RegisterListener(types, "time_step", regs[f[k]].l, regs[f[k]].p),
                    regs, f, k + 1)
Replay(regs, f) == ReplayFrom(Touch(<<>>, "time_step"), regs, f, 1)["time_step"]

\* C5 as stated: one emission invokes the listeners of a channel in ascending
\* bucket order and, within a bucket, in lexicographic order of name, and the
\* invocation sequence is the same for every order of the registrations; L1
\* (priority 2, "zzz"), L2 (priority 2, "aaa"), L3 (priority 1) run as L3, L2, L1.
C5_OrderIndependent ==
    CleanDone =>
        LET regs == Registrations(event_types[eret.name])
            orders == Permutations(1..Len(regs))
        IN  /\ \E f \in orders :
                /\ calls = [k \in 1..Len(regs) |-> regs[f[k]].l]
                /\ \A i, j \in 1..Len(regs) :
                    i < j => \/ regs[f[i]].p < regs[f[j]].p
                             \/ /\ regs[f[i]].p = regs[f[j]].p
                                /\ ~LexLess(regs[f[j]].l.name, regs[f[i]].l.name)
            /\ \A f \in orders : EmissionOrder(Replay(regs, f)) = calls
            /\ {regs[k] : k \in 1..Len(regs)}
                    = {[l |-> L1, p |-> 2], [l |-> L2, p |-> 2], [l |-> L3, p |-> 1]}
                 /\ Len(regs) = 3
               => calls = <<L3, L2, L1>>

\* while nobody registers, the listeners called so far and the one called next
\* are the start of the channel's call order; after a listener raised emit is
\* over and the listeners called are a start of that order ending with it
C6_Prefix ==
    /\ em.active /\ ~em.dirty =>
        LET order == EmissionOrder(event_types[em.name])
        IN  /\ Len(calls) < Len(order)
            /\ Append(calls, em.snap[em.i]) = SubSeq(order, 1, Len(calls) + 1)
    /\ eret.op = "emit" /\ eret.err = "raised" =>
        /\ ~em.active
        /\ ~em.dirty =>
            LET order == EmissionOrder(event_types[eret.name])
            IN  /\ calls # <<>>
                /\ Len(calls) <= Len(order)
                /\ calls = SubSeq(order, 1, Len(calls))

C6_RaiseStep ==
    em.active /\ eret'.err = "raised" =>
        /\ event_types' = event_types
        /\ calls' = Append(calls, em.snap[em.i])
        /\ ~em'.active

\* C6: when a listener raises, emit ends with that exception, the listeners
\* ordered before it have been invoked as in a normal emission, none after it
\* is invoked, and the registered listeners are unchanged, so that the next
\* emission starts from the first listener.
C6_FailFast == []C6_Prefix /\ [][C6_RaiseStep]_vars

C6_Witness ==
    /\ eret.op = "emit"
    /\ eret.err = "raised"
    /\ ~em.dirty
    /\ Len(calls) = 2
    /\ Len(EmissionOrder(event_types[eret.name])) = 3

C7_Known ==
    /\ Range(ListEvents) = named
    /\ DOMAIN event_types = named
    /\ Len(ListEvents) = Cardinality(named)
    /\ eret.op = "emit" /\ clock /\ EmissionOrder(event_types[eret.name]) = <<>> =>
            eret.err = "ok" /\ eret.name \in Range(ListEvents)

\* C7: with the clock bound, an emission on a channel without listeners ends
\* without error and list_events() then holds its name; list_events() is always
\* the set of names handed to get_emitter, register_listener or the injector,
\* and never loses a name.
C7_ListEvents == []C7_Known /\ [][Range(event_keys) \subseteq Range(event_keys')]_vars

C7_Witness ==
    /\ eret.op = "emit"
    /\ eret.err = "ok"
    /\ clock
    /\ EmissionOrder(event_types[eret.name]) = <<>>
    /\ Len(ListEvents) = 2

Occurrences(seq, x) == Cardinality({k \in 1..Len(seq) : seq[k] = x})

\* C8: one emission invokes each listener as many times as it was registered
\* on the channel, and not at all when it was registered on other channels only.
C8_NoDedup ==
    CleanDone =>
        \A l \in Listeners : Occurrences(calls, l) = registered[<<eret.name, l.id>>]

C8_Witness ==
    /\ CleanDone
    /\ \E l \in Listeners : registered[<<eret.name, l.id>>] = 2
    /\ \E l \in Listeners, n \in EventNames :
            registered[<<eret.name, l.id>>] = 0 /\ registered[<<n, l.id>>] > 0


(***************************************************************************)
(* Claims: bulk loads and reads                                            *)
(***************************************************************************)
\* the leaves of a mapping: the names leading to each scalar, and the scalar
RECURSIVE Leaves(_)
Leaves(items) ==
    UNION {IF items[k].val.kind = "scalar"
           THEN {[path |-> <<items[k].k>>, v |-> items[k].val.v]}
           ELSE {[path |-> <<items[k].k>> \o lf.path, v |-> lf.v] :
                    lf \in Leaves(items[k].val.items)}
           : k \in 1..Len(items)}

\* tree.<n1>.<n2>...: name-based reads chained along path from position i on
RECURSIVE ChainRead(_, _, _, _)
ChainRead(o, p, path, i) ==
    LET r == GetFromLayer(o, p, path[i], None) IN
    IF i = Len(path) \/ r.err # "ok" \/ ~r.tree THEN r
    ELSE ChainRead(r.o, Append(p, path[i]), path, i + 1)

\* the layer an unlayered read of node q resolves to: the held one declared last
Strongest(o, q) ==
    LET ls == Layers(o, q)
        held == {i \in 1..Len(ls) : o[q].values[ls[i]].set}
    IN  IF held = {} THEN None ELSE ls[CHOOSE i \in held : \A j \in held : j <= i]

\* the tree at p and everything below it is unfrozen
Unfrozen(p) == \A q \in Below(objs, p) : ~objs[q].frozen

\* the tree at p and everything below it declares the layer
Declared(p, layer) == \A q \in Below(objs, p) : layer \in Range(Layers(objs, q))

\* C11 as stated: after read_dict(m, L, s) on an unfrozen tree, the chained
\* name-based read of every leaf path of m returns the scalar of m and the
\* leaf's get_value_with_source() without a layer reports (s, that scalar).
C11_RoundTripAnyStep ==
    ret'.op = "read_dict" =>
    LET p == ret'.path
        layer == ret'.layer
    IN  \A items \in ReadMappings(Input(layer).value) :
            /\ Len(items) = ret'.val
            /\ ReadDictCall(p, items, layer, Input(layer).source)
            /\ Unfrozen(p)
            /\ Declared(p, layer)
            =>
                \A lf \in Leaves(items) :
                    /\ ret'.err = "ok"
                    /\ ChainRead(objs', p, lf.path, 1).err = "ok"
                    /\ ~ChainRead(objs', p, lf.path, 1).tree
                    /\ ChainRead(objs', p, lf.path, 1).val = lf.v
                    /\ NodeGetValueWithSource(objs', p \o lf.path, None)
                            = [err |-> "ok", val |-> Pair(Input(layer).source, lf.v)]
C11_RoundTripAny == [][C11_RoundTripAnyStep]_vars

\* C11 as amended: after read_dict(m, L, s) on an unfrozen tree, every leaf path
\* of m leads to a Node whose get_value_with_source(L) reports (s, the scalar of m);
\* the chained name-based read and the read without a layer return that scalar
\* and pair when L is the last layer of the leaf's sequence that holds a value.
C11_RoundTripStep ==
    ret'.op = "read_dict" =>
    LET p == ret'.path
        layer == ret'.layer
    IN  \A items \in ReadMappings(Input(layer).value) :
            /\ Len(items) = ret'.val
            /\ ReadDictCall(p, items, layer, Input(layer).source)
            /\ Unfrozen(p)
            /\ Declared(p, layer)
            =>
                \A lf \in Leaves(items) :
                    LET q == p \o lf.path
                        want == Pair(Input(layer).source, lf.v)
                    IN  /\ ret'.err = "ok"
                        /\ q \in DOMAIN objs' /\ objs'[q].kind = "Node"
                        /\ NodeGetValueWithSource(objs', q, layer)
                                = [err |-> "ok", val |-> want]
                        /\ Strongest(objs', q) = layer =>
                            /\ ChainRead(objs', p, lf.path, 1).err = "ok"
                            /\ ~ChainRead(objs', p, lf.path, 1).tree
                            /\ ChainRead(objs', p, lf.path, 1).val = lf.v
                            /\ ChainRead(objs', p, lf.path, 1).o = objs'
                            /\ NodeGetValueWithSource(objs', q, None)
                                    = [err |-> "ok", val |-> want]
C11_RoundTrip == [][C11_RoundTripStep]_vars

\* a completed read_dict of {a: {x: v}, x: v} over a leaf that held another layer
C11_Witness ==
    /\ ret.op = "read_dict" /\ ret.err = "ok" /\ ret.val = 2
    /\ ret.layer # None
    /\ Unfrozen(ret.path)
    /\ Declared(ret.path, ret.layer)
    /\ <<"a", "x">> \in Nodes
    /\ Strongest(objs, <<"a", "x">>) = ret.layer
    /\ \E l \in LayerNames \ {ret.layer} : objs[<<"a", "x">>].values[l].set


MaterialisingOps == {"getattr", "setattr", "set_with_metadata", "read_dict"}

\* C12: a name-based read of a name with no child creates an empty child Tree
\* under it on an unfrozen tree (the name is then contained and len is one more)
\* and fails with KeyError, changing nothing, on a frozen tree; the containment
\* test and len change nothing and report the children as they are; a name
\* becomes contained only by a write or an autocreating read, and stays so.
C12_Step ==
    /\ ret'.op = "getattr" =>
       LET p == ret'.path
           name == ret'.name
       IN
        GetAttr(p, name) /\ ~Contains(objs, p, name) =>
            IF objs[p].frozen
            THEN ret'.err = "KeyError" /\ objs' = objs
            ELSE /\ ret'.err = "ok" /\ ret'.tree
                 /\ objs'[Append(p, name)].kind = "Tree"
                 /\ objs'[Append(p, name)].kids = <<>>
                 /\ Contains(objs', p, name)
                 /\ TreeLen(objs', p) = TreeLen(objs, p) + 1
                 /\ DOMAIN objs' = DOMAIN objs \cup {Append(p, name)}
                 /\ \A q \in DOMAIN objs \ {p} : objs'[q] = objs[q]
    /\ ret'.op = "contains" =>
            /\ objs' = objs
            /\ ret'.flag = (ret'.name \in Range(objs[ret'.path].kids))
    /\ ret'.op = "len" =>
            /\ objs' = objs
            /\ ret'.val = Cardinality(Range(objs[ret'.path].kids))
    /\ objs' # objs =>
       \A p \in Trees, name \in ChildNames :
        p \in DOMAIN objs' /\ objs'[p].kind = "Tree" =>
            /\ Contains(objs, p, name) => Contains(objs', p, name)
            /\ Contains(objs', p, name) /\ ~Contains(objs, p, name) =>
                    ret'.op \in MaterialisingOps
C12_Autocreation == [][C12_Step]_vars

C12_Witness ==
    /\ ret.op = "getattr" /\ ret.err = "ok" /\ ret.tree /\ ret.changed
    /\ Contains(objs, ret.path, ret.name)
    /\ objs[Append(ret.path, ret.name)].kids = <<>>


\* the records metadata() of node p is to return: one per held declared
\* position, in increasing position, the last declared position being the default
ExpectedMetadata(p, m) ==
    LET ls == Layers(objs, p) IN
    /\ Len(m) = Cardinality(Held(p))
    /\ \A k \in 1..Len(m) :
        \E i \in Held(p) :
            /\ Cardinality({j \in Held(p) : j < i}) = k - 1
            /\ m[k].layer = ls[i]
            /\ m[k].value = objs[p].values[ls[i]].value
            /\ m[k].source = objs[p].values[ls[i]].source
            /\ m[k].default = (i = Len(ls))

\* C13: ConfigNode.metadata() returns one record per declared layer holding a
\* value, in declaration order, with that layer's value and source and default
\* true iff the layer is the last of the sequence as currently declared; the
\* call changes nothing, so a second call returns the same records.
C13_Records ==
    ret.op = "node.metadata" =>
        /\ ExpectedMetadata(ret.path, ret.meta)
        /\ NodeMetadata(objs, ret.path) = ret.meta
C13_Metadata == []C13_Records /\ [][ret'.op = "node.metadata" => objs' = objs]_vars

\* metadata() of a node holding two layers
C13_Witness ==
    /\ ret.op = "node.metadata"
    /\ Len(ret.meta) = 2
    /\ ~ret.meta[1].default /\ ret.meta[2].default


\* every object of the store declares the layer sequence of the root tree
Uniform(o) == \A q \in DOMAIN o : Layers(o, q) = Layers(o, Root)

TreeOps == {"getattr", "setattr", "set_with_metadata", "read_dict", "reset_layer",
            "drop_layer"}

\* C14 as stated: every descendant Tree and Node has the declared layer sequence
\* of the root tree, in the constructed tree and after every write, autocreating
\* read, read_dict, reset_layer and drop_layer call on the root tree, whether the
\* call completes or fails.
C14_SameLayersStep ==
    Uniform(objs) /\ ret'.op \in TreeOps /\ ret'.path = Root => Uniform(objs')
C14_SameLayers == [][C14_SameLayersStep]_vars


\* the layer a write with this layer argument lands on in node q
Target(o, q, layer) == IF layer = None THEN Layers(o, q)[Len(Layers(o, q))] ELSE layer

\* what a completed write of value under name in the tree at p leaves behind
Written(p, name, value, layer, source) ==
    LET c == Append(p, name)
        wasTree == c \in Trees
        wasNode == c \in Nodes
        keys == [k \in 1..Len(value.items) |-> value.items[k].k]
    IN  /\ \A q \in DOMAIN objs : ~IsPrefix(c, q) /\ q # p =>
                q \in DOMAIN objs' /\ objs'[q] = objs[q]
        /\ Contains(objs', p, name)
        /\ \A n \in Range(objs[p].kids) : Contains(objs', p, n)
        /\ value.kind = "scalar" =>
            /\ objs'[c].kind = "Node"
            /\ Below(objs', c) = {c}
            /\ objs'[c].values =
                    [(IF wasNode THEN objs[c].values ELSE NoValues)
                        EXCEPT ![Target(objs', c, layer)] = Pair(source, value.v)]
        /\ value.kind = "dict" =>
            /\ objs'[c].kind = "Tree"
            /\ wasTree =>
                /\ \A n \in Range(objs[c].kids) \ Range(keys) :
                        \A q \in Below(objs, Append(c, n)) :
                            q \in DOMAIN objs' /\ objs'[q] = objs[q]
                /\ Range(objs'[c].kids) = Range(objs[c].kids) \cup Range(keys)
            /\ ~wasTree =>
                /\ objs'[c].kids = keys
                /\ \A lf \in Leaves(value.items) :
                        LET q == c \o lf.path IN
                        /\ q \in DOMAIN objs' /\ objs'[q].kind = "Node"
                        /\ objs'[q].values =
                                [NoValues EXCEPT ![Target(objs', q, layer)]
                                                    = Pair(source, lf.v)]

\* C15: a completed write through attribute assignment or set_with_metadata
\* leaves the name bound to the kind of the written value: a mapping merges
\* into the child Tree already there (children it does not name are kept) or
\* binds a new Tree holding the mapping's entries only; a scalar is stored in
\* the child Node already there (values at other layers kept) or binds a new
\* Node holding that value only, the previous subtree being discarded.
C15_BindingStep ==
    /\ ret'.op = "setattr" /\ ret'.err = "ok" =>
        LET p == ret'.path
            name == ret'.name
        IN  \A value \in Values(Input(None).value) :
                SetAttr(p, name, value) => Written(p, name, value, None, None)
    /\ ret'.op = "set_with_metadata" /\ ret'.err = "ok" =>
        LET p == ret'.path
            name == ret'.name
            layer == ret'.layer
        IN  SetWithMetadataCall(p, name, Scalar(Input(layer).value), layer,
                                Input(layer).source)
            => Written(p, name, Scalar(Input(layer).value), layer, Input(layer).source)
C15_Binding == [][C15_BindingStep]_vars

\* a scalar was written over a Node that keeps a value at another layer
C15_Witness ==
    /\ ret.op = "set_with_metadata" /\ ret.err = "ok"
    /\ Append(ret.path, ret.name) \in Nodes
    /\ objs[Append(ret.path, ret.name)].values[ret.layer].set
    /\ \E l \in LayerNames \ {ret.layer} :
            objs[Append(ret.path, ret.name)].values[l].source = "initial data"


\* the node at q, below the tree at p, is at or below an entry of preserve_keys
Preserved(p, q, preserve_keys) ==
    \E k \in 1..Len(preserve_keys) :
        LET segs == Split(preserve_keys[k])
        IN  /\ Len(segs) <= Len(q) - Len(p)
            /\ \A i \in 1..Len(segs) : segs[i] = Chars(q[Len(p) + i])

\* C16 as stated: reset_layer(L, preserve_keys) completes; afterwards every
\* descendant Node that is neither a preserved entry nor below one holds no
\* value at L, every Node at or below a preserved entry keeps its value at L,
\* and the declared sequences and the values at other layers are unchanged.
C16_ResetStep ==
    \A p \in Trees, layer \in Universe, keys \in PreserveLists :
        ResetLayerCall(p, layer, keys) =>
            /\ ret'.err = "ok"
            /\ DOMAIN objs' = DOMAIN objs
            /\ \A q \in DOMAIN objs : Layers(objs', q) = Layers(objs, q)
            /\ \A q \in NodesBelow(objs, p) :
                /\ Preserved(p, q, keys) => objs'[q].values[layer] = objs[q].values[layer]
                /\ ~Preserved(p, q, keys) => ~objs'[q].values[layer].set
                /\ \A l \in LayerNames \ {layer} : objs'[q].values[l] = objs[q].values[l]
C16_Reset == [][C16_ResetStep]_vars


\* the descent from the tree at p along the segments of a dotted key: the object
\* reached when every segment names a child of the tree before it
RECURSIVE Descend(_, _, _)
Descend(p, segs, i) ==
    IF i > Len(segs) THEN [found |-> TRUE, at |-> p]
    ELSE IF objs[p].kind = "Tree" /\ Named(objs, p, segs[i]) # {}
    THEN Descend(Append(p, CHOOSE n \in Named(objs, p, segs[i]) : TRUE), segs, i + 1)
    ELSE [found |-> FALSE, at |-> p]

\* C17 as stated: metadata(key) returns the metadata() of the Node the dotted
\* key leads to when every segment names a materialised child; when a segment
\* is absent (no child of that name, a path going on below a Node, a path
\* stopping at a Tree) it fails with KeyError and no other error; it never
\* materialises a child.
C17_MetadataStep ==
    \A p \in Trees, key \in MetaKeys :
        TreeMetadataCall(p, key) =>
            LET d == Descend(p, Split(key), 1) IN
            /\ objs' = objs
            /\ IF d.found /\ objs[d.at].kind = "Node"
               THEN ret'.err = "ok" /\ ret'.meta = NodeMetadata(objs, d.at)
               ELSE ret'.err = "KeyError"
C17_Metadata == [][C17_MetadataStep]_vars


\* C19: after a completed name-based scalar write name = v, the name-based read
\* of that name returns v, whatever the Node holds at its other layers, and the
\* read changes nothing.
C19_ReadYourWriteStep ==
    ret'.op = "setattr" /\ ret'.err = "ok" =>
        LET p == ret'.path
            name == ret'.name
        IN
        SetAttr(p, name, Scalar(Input(None).value)) =>
            LET r == GetFromLayer(objs', p, name, None)
            IN  /\ r.err = "ok"
                /\ ~r.tree
                /\ r.val = Input(None).value
                /\ r.o = objs'
C19_ReadYourWrite == [][C19_ReadYourWriteStep]_vars

\* a scalar was assigned to a name whose Node holds another value at another layer
C19_Witness ==
    /\ ret.op = "setattr" /\ ret.err = "ok" /\ ret.changed
    /\ Append(ret.path, ret.name) \in Nodes
    /\ \E l \in LayerNames :
            /\ objs[Append(ret.path, ret.name)].values[l].set
            /\ objs[Append(ret.path, ret.name)].values[l].value # Input(None).value


(***************************************************************************)
(* Claims: registration during an emission                                 *)
(***************************************************************************)
\* the listeners the running emission has still to call, the one running
\* first, if nobody registers from now on
Pending(e, types) ==
    IF ~e.active THEN <<>>
    ELSE SubSeq(e.snap, e.i, Len(e.snap)) \o EmissionOrderFrom(types[e.name], e.bucket + 1)

\* C20: a listener running in an emission registers a listener new to the
\* channel: the new listener is called in this emission iff its bucket is
\* greater than the bucket of the running listener, otherwise the next
\* emission is the first to call it; the listeners still to be called are the
\* ones that were, so none already called is called again.  An emission calls
\* what is pending, one listener at a time.
C20_Step ==
    /\ \A name \in EventNames, l \in Listeners, p \in Priorities :
        /\ InvokeRegister(name, l, p)
        /\ name = em.name
        /\ registered[<<name, l.id>>] = 0
        => /\ (l \in Range(Pending(em', event_types'))) <=> (p > em.bucket)
           /\ Occurrences(Pending(em', event_types'), l) <= 1
           /\ l \notin Range(calls')
           /\ l \in Range(EmissionOrder(event_types'[name]))
           /\ SelectSeq(Pending(em', event_types'), LAMBDA x : x # l)
                = Tail(Pending(em, event_types))
    /\ em.active =>
        /\ calls' = Append(calls, Head(Pending(em, event_types)))
        /\ event_types' = event_types /\ eret'.err # "raised" =>
                Pending(em', event_types') = Tail(Pending(em, event_types))
        /\ eret'.err = "raised" => Pending(em', event_types') = <<>>
C20_DuringEmission == [][C20_Step]_vars

\* an emission ended in which the listener of bucket 1 registered the listener
\* of bucket 2, which was then called
C20_Witness ==
    /\ eret.op = "emit" /\ eret.err = "ok" /\ ~em.active /\ em.dirty
    /\ nregs = 2
    /\ Len(calls) = 2
    /\ event_types[eret.name][1] = <<calls[1]>>
    /\ event_types[eret.name][2] = <<calls[2]>>


(***************************************************************************)
(* Claims: component setup                                                 *)
(***************************************************************************)
\* the listener declarations of the components: component ci declares, on
\* itself (at = 0) or on its attribute number at, listener l for event at priority
Declarations(components) ==
    UNION {
        {[ci |-> ci, at |-> 0, l |-> components[ci].self.l,
          event |-> components[ci].self.marks[k].event,
          priority |-> components[ci].self.marks[k].priority] :
            k \in 1..Len(components[ci].self.marks)}
        \cup UNION {
            {[ci |-> ci, at |-> a, l |-> components[ci].attrs[a].f.l,
              event |-> components[ci].attrs[a].f.marks[k].event,
              priority |-> components[ci].attrs[a].f.marks[k].priority] :
                k \in 1..Len(components[ci].attrs[a].f.marks)}
            : a \in 1..Len(components[ci].attrs)}
        : ci \in 1..Len(components)}

\* the event names the components declare an emitter for
DeclaredEmitters(components) ==
    UNION {Range(components[ci].self.emits)
           \cup UNION {Range(components[ci].attrs[a].f.emits) :
                        a \in 1..Len(components[ci].attrs)}
           : ci \in 1..Len(components)}

\* declaration d is processed before declaration e
Before(components, d, e) ==
    \/ d.ci < e.ci
    \/ d.ci = e.ci /\ d.at = 0 /\ e.at # 0
    \/ d.ci = e.ci /\ d.at # 0 /\ e.at # 0
          /\ LexLess(components[d.ci].attrs[d.at].name, components[e.ci].attrs[e.at].name)

\* C18: after setup_components(components) list_events() holds every event
\* name a component or an attribute of a component declares a listener or an
\* emitter for; every declared listener has been appended once to the bucket
\* of its declared priority on the channel of its declared event, the
\* component itself first and its attributes in sorted order of their names.
C18_SetupStep ==
    \A components \in ComponentLists :
        (eret'.op = "setup_components" /\ SetupComponents(components)) =>
            LET decls == Declarations(components) IN
            /\ {d.event : d \in decls} \cup DeclaredEmitters(components)
                    \subseteq Range(event_keys')
            /\ Range(event_keys') \subseteq DOMAIN event_types'
            /\ \A name \in DOMAIN event_types', b \in 0..(NumBuckets - 1) :
                LET old == IF name \in DOMAIN event_types THEN event_types[name][b]
                           ELSE <<>>
                    new == event_types'[name][b]
                    here == {d \in decls : d.event = name /\ d.priority = b}
                IN  /\ Len(new) = Len(old) + Cardinality(here)
                    /\ SubSeq(new, 1, Len(old)) = old
                    /\ \A d \in here :
                        new[Len(old) + 1
                            + Cardinality({e \in here : Before(components, e, d)})] = d.l
C18_Setup == [][C18_SetupStep]_vars

\* setup_components has wired a component whose attributes were given out of
\* name order
C18_Witness ==
    /\ eret.op = "setup_components"
    /\ "time_step" \in DOMAIN event_types
    /\ event_types["time_step"][2] = <<L1, L2, L3>>
    /\ "other" \in Range(ListEvents)

====
